---- MODULE Spec2Model ----
(***************************************************************************)
(* A model of the SC-200 quiz application (src/CertApp/quiz_app.py and     *)
(* src/CertApp/main.py): the answer normaliser and matcher, the question   *)
(* pool builder and the quiz session driven by the Tk callbacks.           *)
(*                                                                         *)
(* A Python str is a sequence of one-character strings, so that strip(),   *)
(* upper(), split() and indexing are computed and not assumed.  A question *)
(* record (a dict of the question bank) is named by its number in          *)
(* Question; two numbers name two records that differ, so the equality of  *)
(* the numbers is the dict equality that `in` and `remove` use.            *)
(***************************************************************************)
EXTENDS Integers, Sequences, FiniteSets, Bags, TLC

(***************************************************************************)
(* Bounds of the model.                                                    *)
(***************************************************************************)
\* Start Quiz clicks in one run of the process.
MaxSessions == 2
\* Result windows open at the same time.
MaxResultWins == 2
\* end_quiz runs of a session after which End Quiz is not clicked again.
MaxEnds == 2
\* The largest count typed in the entry field (the smallest is -1).
MaxCount == 2
\* Entries of each persisted list when the process starts.
MaxStored == 2
\* Clicks (Start Quiz, Submit, OK, End Quiz, Close) in one run of the process.
MaxClicks == 5
\* Characters of a token handed to the normaliser.
MaxTokenLen == 2
\* Entries of the list in a question's answer field, for the matcher alone.
MaxAnswerLen == 2
\* Questions of a bank file handed to the validation mode.
MaxBankQuestions == 2

(***************************************************************************)
(* Python strings.                                                         *)
(***************************************************************************)
UpperCase == <<"A", "B", "C", "D", "E", "F", "G", "H", "I", "J", "K", "L", "M",
               "N", "O", "P", "Q", "R", "S", "T", "U", "V", "W", "X", "Y", "Z">>
LowerCase == <<"a", "b", "c", "d", "e", "f", "g", "h", "i", "j", "k", "l", "m",
               "n", "o", "p", "q", "r", "s", "t", "u", "v", "w", "x", "y", "z">>

\* chr(65 + i)
Chr65(i) == UpperCase[i + 1]

\* ord(L) - 65, for an upper-case letter L
Ord65(L) == (CHOOSE k \in 1..Len(UpperCase) : UpperCase[k] = L) - 1

\* c.upper() of one character
UpperChar(c) ==
    IF \E k \in 1..Len(LowerCase) : LowerCase[k] = c
    THEN UpperCase[CHOOSE k \in 1..Len(LowerCase) : LowerCase[k] = c]
    ELSE c

\* s.upper()
Upper(s) == [i \in 1..Len(s) |-> UpperChar(s[i])]

\* the characters str.strip() and str.split() take for whitespace
IsSpace(c) == c \in {" ", "\t", "\n"}

RECURSIVE LStrip(_)
LStrip(s) == IF s # <<>> /\ IsSpace(Head(s)) THEN LStrip(Tail(s)) ELSE s

\* s.rstrip(chars); RStrip(s, whitespace) is the right half of s.strip()
RECURSIVE RStrip(_, _)
RStrip(s, chars) ==
    IF s # <<>> /\ s[Len(s)] \in chars
    THEN RStrip(SubSeq(s, 1, Len(s) - 1), chars)
    ELSE s

\* s.strip()
Strip(s) == RStrip(LStrip(s), {" ", "\t", "\n"})

\* s.split()[0], for s with a character that is not whitespace
RECURSIVE TakeWord(_)
TakeWord(s) ==
    IF s = <<>> \/ IsSpace(Head(s)) THEN <<>> ELSE <<Head(s)>> \o TakeWord(Tail(s))

FirstWord(s) == TakeWord(LStrip(s))

(***************************************************************************)
(* The answer normaliser.  An answer field is [kind, items]: kind "none"   *)
(* is None (items empty), "str" a scalar (items holds it alone), "list" a  *)
(* list of strings.                                                        *)
(***************************************************************************)
NoneAnswer == [kind |-> "none", items |-> <<>>]
StrAnswer(s) == [kind |-> "str", items |-> <<s>>]
ListAnswer(l) == [kind |-> "list", items |-> l]

\* the keys of _letters_map(n)
LettersMapKeys(n) == {Chr65(i) : i \in 0..(n - 1)}

\* s in option_to_letter: the dict is keyed by the stripped option texts
InOptionToLetter(options, s) == \E i \in 1..Len(options) : Strip(options[i]) = s

\* option_to_letter[s]: a later option with the same stripped text overwrites
OptionToLetter(options, s) ==
    LET last == CHOOSE i \in 1..Len(options) :
                    /\ Strip(options[i]) = s
                    /\ \A j \in (i + 1)..Len(options) : Strip(options[j]) # s
    IN  Chr65(last - 1)

\* NormalizeToken with `letters = {x}` for `letters.add(x)`
NormalizeToken_Overwrite(options, raw, letters) ==
    LET s == Strip(raw)
        keys == LettersMapKeys(Len(options))
    IN  IF s = <<>> THEN letters
        ELSE IF UpperChar(s[1]) \in keys THEN {UpperChar(s[1])}
        ELSE IF InOptionToLetter(options, s) THEN {OptionToLetter(options, s)}
        ELSE letters

\* NormalizeToken with case 1 testing for a letter, not for a key of the map
NormalizeToken_AnyLetter(options, raw, letters) ==
    LET s == Strip(raw)
    IN  IF s = <<>> THEN letters
        ELSE IF (\E k \in 1..Len(UpperCase) : UpperCase[k] = UpperChar(s[1])) THEN letters \cup {UpperChar(s[1])}
        ELSE IF InOptionToLetter(options, s)
             THEN letters \cup {OptionToLetter(options, s)}
        ELSE letters

\* one pass of the loop body over the token raw: the letters set afterwards
NormalizeToken(options, raw, letters) ==
    LET s == Strip(raw)
        keys == LettersMapKeys(Len(options))
    IN  IF s = <<>> THEN letters
        ELSE IF UpperChar(s[1]) \in keys THEN letters \cup {UpperChar(s[1])}
        ELSE IF InOptionToLetter(options, s)
             THEN letters \cup {OptionToLetter(options, s)}
        ELSE LET token == Upper(RStrip(FirstWord(s), {".", ":"}))
             IN  IF Len(token) = 1 /\ token[1] \in keys
                 THEN letters \cup {token[1]}
                 ELSE letters

\* the loop `for raw in items`, from the letters gathered so far
RECURSIVE NormalizeLoop(_, _, _)
NormalizeLoop(options, items, letters) ==
    IF items = <<>> THEN letters
    ELSE NormalizeLoop(options, Tail(items),
                       NormalizeToken(options, Head(items), letters))

normalize_mc_answer_to_letters(options, answer) ==
    IF answer.kind = "none" THEN {}
    ELSE NormalizeLoop(options, answer.items, {})

(***************************************************************************)
(* The answer matcher.                                                     *)
(***************************************************************************)
Unknown == <<"U", "n", "k", "n", "o", "w", "n">>
NoneStr == <<"N", "o", "n", "e">>
SelectOption == <<"S", "e", "l", "e", "c", "t", " ", "o", "p", "t", "i", "o", "n">>

\* sep.join(parts)
RECURSIVE Join(_, _)
Join(parts, sep) ==
    IF parts = <<>> THEN <<>>
    ELSE IF Len(parts) = 1 THEN parts[1]
    ELSE parts[1] \o sep \o Join(Tail(parts), sep)

\* sorted(letters_set), a set of upper-case letters
RECURSIVE Sorted(_)
Sorted(letters) ==
    IF letters = {} THEN <<>>
    ELSE LET least == CHOOSE L \in letters : \A M \in letters : Ord65(L) <= Ord65(M)
         IN  <<least>> \o Sorted(letters \ {least})

format_correct_answer(options, letters_set) ==
    IF letters_set = {} THEN Unknown
    ELSE LET ordered == Sorted(letters_set)
             part(L) == IF Ord65(L) < Len(options)
                        THEN <<L, ".", " ">> \o options[Ord65(L) + 1]
                        ELSE <<L>>
         IN  Join([i \in 1..Len(ordered) |-> part(ordered[i])], <<",", " ">>)

\* the sequences that list every element of the set S once: the orders in
\* which Python may iterate a set
Orders(S) ==
    {f \in [1..Cardinality(S) -> S] : \A i, j \in 1..Cardinality(S) : f[i] = f[j] => i = j}

\* set(correct), or {correct}, as the set of its strings; for None the set is
\* {None}, which holds no string: HasNone
CorrectSet(correct) == {correct.items[i] : i \in 1..Len(correct.items)}
HasNone(correct) == correct.kind = "none"

\* is_mc_selection_correct accepting every selection inside the correct set
is_mc_selection_correct_Subset(options, correct, selected_letters) ==
    LET correct_letters == normalize_mc_answer_to_letters(options, correct)
    IN  [raises |-> FALSE,
         is_correct |-> selected_letters \subseteq correct_letters,
         displays |-> {format_correct_answer(options, correct_letters)}]

\* tmp_letters of the fallback path: the letters of list(correct_set); the
\* text of None is "None"
TmpLetters(options, correct) ==
    IF HasNone(correct)
    THEN normalize_mc_answer_to_letters(options, ListAnswer(<<NoneStr>>))
    ELSE NormalizeLoop(options, CHOOSE o \in Orders(CorrectSet(correct)) : TRUE, {})

\* is_correct of is_mc_selection_correct
McIsCorrect(options, correct, selected_letters) ==
    LET correct_letters == normalize_mc_answer_to_letters(options, correct)
        selected_texts == {options[Ord65(L) + 1] : L \in selected_letters}
    IN  IF correct_letters # {}
        THEN selected_letters = correct_letters
        ELSE ~HasNone(correct) /\ selected_texts = CorrectSet(correct)

\* whether is_mc_selection_correct raises: the TypeError of str.join on None
McRaises(options, correct) ==
    /\ normalize_mc_answer_to_letters(options, correct) = {}
    /\ TmpLetters(options, correct) = {}
    /\ HasNone(correct)

\* the display strings is_mc_selection_correct may return: one, or one for
\* each iteration order of correct_set
McDisplays(options, correct) ==
    LET correct_letters == normalize_mc_answer_to_letters(options, correct)
        tmp_letters == TmpLetters(options, correct)
    IN  IF correct_letters # {} THEN {format_correct_answer(options, correct_letters)}
        ELSE IF tmp_letters # {} THEN {format_correct_answer(options, tmp_letters)}
        ELSE IF HasNone(correct) THEN {}
        ELSE {Join(o, <<",", " ">>) : o \in Orders(CorrectSet(correct))}

\* is_mc_selection_correct: whether the call raises, is_correct, and the
\* display strings the call may return
is_mc_selection_correct(options, correct, selected_letters) ==
    [raises |-> McRaises(options, correct),
     is_correct |-> McIsCorrect(options, correct, selected_letters),
     displays |-> McDisplays(options, correct)]

\* ask_drag_and_drop: expected, and the comparison selected == expected
DndExpected(correct) == correct.items
DndSlots(correct) == IF HasNone(correct) THEN 1 ELSE Len(correct.items)
\* DndIsCorrect comparing the entries without their positions
DndIsCorrect_AnyOrder(correct, selected) ==
    /\ ~HasNone(correct)
    /\ Len(selected) = Len(correct.items)
    /\ {selected[i] : i \in 1..Len(selected)}
          = {correct.items[i] : i \in 1..Len(correct.items)}
DndIsCorrect(correct, selected) == ~HasNone(correct) /\ selected = DndExpected(correct)
\* ", ".join(expected) raises on [None], in the branch of a wrong answer
DndRaises(correct, selected) == HasNone(correct)

(***************************************************************************)
(* The question bank.  Question(id) is the record of question id: 'type',  *)
(* 'options' and 'answer' (the other keys do not enter any decision).      *)
(***************************************************************************)
Foo == <<"F", "o", "o">>
Bar == <<"B", "a", "r">>
Baz == <<"B", "a", "z">>
Alpha == <<"A", "l", "p", "h", "a">>
Gamma == <<"G", "a", "m", "m", "a">>
Step1 == <<"S", "t", "e", "p", "1">>
Step2 == <<"S", "t", "e", "p", "|", "2">>

Question(id) ==
    CASE id = 1 -> [type |-> "multiple_choice", options |-> <<Foo, Bar>>,
                    answer |-> ListAnswer(<<<<"A">>, <<"b", ".">>>>)]
      [] id = 2 -> [type |-> "multiple_choice", options |-> <<Gamma, Alpha>>,
                    answer |-> StrAnswer(Gamma)]
      [] id = 3 -> [type |-> "drag_and_drop", options |-> <<Step1, Step2>>,
                    answer |-> ListAnswer(<<Step2, Step1>>)]
      [] id = 5 -> [type |-> "matching", options |-> <<Foo, Bar>>,
                    answer |-> StrAnswer(<<"A">>)]
      [] OTHER  -> [type |-> "multiple_choice", options |-> <<Bar, Baz>>,
                    answer |-> StrAnswer(<<"B", ":">>)]

\* the questions that a bank or a persisted list may hold
QuestionIds == {1, 2, 3, 4}

\* the bank files: each a sequence of topics (the dict's values, in insertion
\* order), each topic a list of questions; one bank holds a record twice
Banks ==
    { <<<<1, 2>>, <<3>>>>, <<<<3>>, <<2, 1>>>>, <<<<2>>, <<>>>>, <<>>,
      <<<<1, 2>>, <<2>>>>, <<<<1, 2>>, <<3, 4>>>> }

(***************************************************************************)
(* Python lists.                                                           *)
(***************************************************************************)
\* x in l
In(x, l) == \E i \in 1..Len(l) : l[i] = x

\* the set of the elements of l
Elems(l) == {l[i] : i \in 1..Len(l)}

\* [x for x in l if x in S]
RECURSIVE Keep(_, _)
Keep(l, S) ==
    IF l = <<>> THEN <<>>
    ELSE (IF Head(l) \in S THEN <<Head(l)>> ELSE <<>>) \o Keep(Tail(l), S)

\* l.remove(x), for x in l: the first x goes
RECURSIVE Remove(_, _)
Remove(l, x) ==
    IF l = <<>> THEN <<>>
    ELSE IF Head(l) = x THEN Tail(l)
    ELSE <<Head(l)>> \o Remove(Tail(l), x)

\* l[:count], also for a negative count
Slice(l, count) ==
    IF count >= 0
    THEN SubSeq(l, 1, IF count < Len(l) THEN count ELSE Len(l))
    ELSE SubSeq(l, 1, Len(l) + count)

\* sum(topics.values(), [])
RECURSIVE Flatten(_)
Flatten(ts) == IF ts = <<>> THEN <<>> ELSE Head(ts) \o Flatten(Tail(ts))

\* the lists random.shuffle(l) may leave: the permutations of l
Shuffles(l) ==
    {[i \in 1..Len(l) |-> l[p[i]]] :
        p \in {f \in [1..Len(l) -> 1..Len(l)] : \A i, j \in 1..Len(l) : f[i] = f[j] => i = j}}

Min(a, b) == IF a < b THEN a ELSE b

(***************************************************************************)
(* The state.                                                              *)
(*   topics            the bank that load_questions reads                  *)
(*   asked_file        asked_questions.json (a missing file is [])         *)
(*   wrong_file        wrong_questions.json                                *)
(*   score_history     score_history.json                                  *)
(*   question_memory, correct_answers, question_queue, current_question    *)
(*                     the module globals                                  *)
(*   qwins             the open question windows, a bag of [q, res, inc]:  *)
(*                     the question the window's callbacks hold, its open  *)
(*                     result windows, and how often its Submit has added  *)
(*                     to correct_answers                                  *)
(*   orphans           the open result windows whose question window is    *)
(*                     destroyed                                           *)
(*   root              the root window exists (the main loop runs)         *)
(*   session, ended    run_quiz calls so far; end_quiz calls since the     *)
(*                     last run_quiz                                       *)
(*   last              the last callback that ran, with its inputs         *)
(*   clicks            the callbacks that have run                         *)
(*   nOptions, nAnswer, nLetters, nCalled                                  *)
(*                     a call of normalize_mc_answer_to_letters: its       *)
(*                     arguments, what it returned, whether it has run     *)
(*   mQuestion, mSelected, mResult, mCalled                                *)
(*                     a call of the matcher of a question window (for a   *)
(*                     multiple_choice question is_mc_selection_correct,   *)
(*                     for a drag_and_drop question the comparison of      *)
(*                     submit): the question, the selection, the outcome   *)
(*   vBank, vResult, vCalled                                               *)
(*                     a run of the validation mode: the bank file, the    *)
(*                     counts of validate_questions and the exit status    *)
(***************************************************************************)
VARIABLES topics, asked_file, wrong_file, score_history,
          question_memory, correct_answers, question_queue, current_question,
          qwins, orphans, root, session, ended, last, clicks,
          nOptions, nAnswer, nLetters, nCalled,
          mQuestion, mSelected, mResult, mCalled,
          vBank, vResult, vCalled

files == <<asked_file, wrong_file, score_history>>
globals == <<question_memory, correct_answers, question_queue, current_question>>
windows == <<qwins, orphans, root>>
sessionVars == <<topics, files, globals, windows, session, ended, last, clicks>>
normVars == <<nOptions, nAnswer, nLetters, nCalled>>
matchVars == <<mQuestion, mSelected, mResult, mCalled>>
validVars == <<vBank, vResult, vCalled>>
vars == <<sessionVars, normVars, matchVars, validVars>>

Event(op, q, ok, n, orphan) == [op |-> op, q |-> q, ok |-> ok, n |-> n, orphan |-> orphan]

\* the lists a persisted file may hold when the process starts: no question twice
StoredLists ==
    UNION {{l \in [1..k -> QuestionIds] : \A i, j \in 1..k : l[i] = l[j] => i = j} :
           k \in 0..MaxStored}

\* the counts the entry field may hold
Counts == (-1)..MaxCount

\* the result windows open
RECURSIVE SumRes(_, _)
SumRes(S, wins) ==
    IF S = {} THEN 0
    ELSE LET w == CHOOSE x \in S : TRUE
         IN  w.res * CopiesIn(w, wins) + SumRes(S \ {w}, wins)

ResultWins == orphans + SumRes(BagToSet(qwins), qwins)

NormIdle ==
    /\ nOptions = <<>>
    /\ nAnswer = NoneAnswer
    /\ nLetters = {}
    /\ nCalled = FALSE

\* a selection: the letters ticked, or the texts of the dropdowns
Letters(S) == [letters |-> S, texts |-> <<>>]
Texts(l) == [letters |-> {}, texts |-> l]

MatchIdle ==
    /\ mQuestion = [type |-> "", options |-> <<>>, answer |-> NoneAnswer]
    /\ mSelected = Letters({})
    /\ mResult = [raises |-> FALSE, is_correct |-> FALSE, displays |-> {}]
    /\ mCalled = FALSE

ValidIdle ==
    /\ vBank = <<>>
    /\ vResult = [total |-> 0, issues |-> 0, exit |-> 0]
    /\ vCalled = FALSE

SessionIdle ==
    /\ score_history = <<>>
    /\ question_memory = <<>>
    /\ correct_answers = 0
    /\ question_queue = <<>>
    /\ current_question = 0
    /\ qwins = EmptyBag
    /\ orphans = 0
    /\ root = TRUE
    /\ session = 0
    /\ ended = 0
    /\ last = Event("start", 0, FALSE, 0, FALSE)
    /\ clicks = 0

\* what a run of the process may start from: the bank and the two lists that
\* earlier runs left (a mastered question and two missed ones, one of which
\* has left the bank; every question of the bank mastered).  Answering yes to
\* both reset prompts gives the session of a fresh install.
Installs ==
    { [topics |-> <<<<3>>, <<1>>>>, asked |-> <<3>>, wrong |-> <<4, 1>>],
      [topics |-> <<<<2>>, <<>>>>, asked |-> <<2>>, wrong |-> <<>>] }

Init ==
    /\ \E i \in Installs :
          /\ topics = i.topics
          /\ asked_file = i.asked
          /\ wrong_file = i.wrong
    /\ SessionIdle
    /\ NormIdle
    /\ MatchIdle
    /\ ValidIdle

(***************************************************************************)
(* The callbacks.                                                          *)
(***************************************************************************)
\* record_score's entry (the date left out); score is the quotient
\* correct / total * 100 as the pair <<numerator, denominator>>
ScoreRecord(correct, total) ==
    [correct |-> correct, total |-> total, score |-> <<correct * 100, total>>]

\* end_quiz without the guard of total_answered
end_quiz_Unguarded(history, current, correct) ==
    Append(history, ScoreRecord(correct, current))

\* end_quiz: the history afterwards
end_quiz(history, current, correct) ==
    LET total_answered == IF current > 0 THEN current ELSE 1
    IN  Append(history, ScoreRecord(correct, total_answered))

NewWindow(q) == SetToBag({[q |-> q, res |-> 0, inc |-> 0]})

\* ask_question, with the globals as they are when it runs: the windows, the
\* history and the end_quiz count afterwards
ask_question(current, queue, correct, wins, history, ends) ==
    IF current >= Len(queue)
    THEN [qwins |-> wins,
          score_history |-> end_quiz(history, current, correct),
          ended |-> ends + 1]
    ELSE LET question_data == queue[current + 1]
             question_type == Question(question_data).type
         IN  [qwins |-> IF question_type \in {"multiple_choice", "drag_and_drop"}
                        THEN wins (+) NewWindow(question_data)
                        ELSE wins,
              score_history |-> history,
              ended |-> ends]

\* BuildQueues with the missed questions after the shuffled remainder
BuildQueues_MissedLast(ts, memory, wrong, question_count) ==
    LET all_questions == Flatten(ts)
        wrong_questions == Keep(wrong, Elems(all_questions))
        remaining_questions ==
            Keep(all_questions,
                 Elems(all_questions) \ (Elems(memory) \cup Elems(wrong_questions)))
    IN  {LET combined == shuffled \o wrong_questions
             count == Min(question_count, Len(combined))
         IN  Slice(combined, count) : shuffled \in Shuffles(remaining_questions)}

\* BuildQueues without the filter of the missed questions by the bank
BuildQueues_KeepsStale(ts, memory, wrong, question_count) ==
    LET all_questions == Flatten(ts)
        remaining_questions ==
            Keep(all_questions, Elems(all_questions) \ (Elems(memory) \cup Elems(wrong)))
    IN  {LET combined == wrong \o shuffled
             count == Min(question_count, Len(combined))
         IN  Slice(combined, count) : shuffled \in Shuffles(remaining_questions)}

\* the queues run_quiz may build
BuildQueues(ts, memory, wrong, question_count) ==
    LET all_questions == Flatten(ts)
        wrong_questions == Keep(wrong, Elems(all_questions))
        remaining_questions ==
            Keep(all_questions,
                 Elems(all_questions) \ (Elems(memory) \cup Elems(wrong_questions)))
    IN  {LET combined == wrong_questions \o shuffled
             count == Min(question_count, Len(combined))
         IN  Slice(combined, count) : shuffled \in Shuffles(remaining_questions)}

\* start_quiz_from_input with an integer in the entry field: run_quiz with the
\* answers to its two prompts.  (Another text raises ValueError and changes
\* nothing.)
RunQuiz(question_count, reset_memory, reset_missed) ==
    /\ root
    /\ session < MaxSessions
    /\ LET memory == IF reset_memory THEN <<>> ELSE asked_file
           wrong == IF reset_missed THEN <<>> ELSE wrong_file
       IN  /\ asked_file' = memory
           /\ question_memory' = memory
           /\ wrong_file' = wrong
           /\ \E queue \in BuildQueues(topics, memory, wrong, question_count) :
                LET asked == ask_question(0, queue, 0, qwins, score_history, 0)
                IN  /\ question_queue' = queue
                    /\ qwins' = asked.qwins
                    /\ score_history' = asked.score_history
                    /\ ended' = asked.ended
    /\ correct_answers' = 0
    /\ current_question' = 0
    /\ session' = session + 1
    /\ last' = Event("run_quiz", 0, FALSE, question_count, FALSE)
    /\ UNCHANGED <<topics, orphans, root>>

\* what the user may have selected when Submit is clicked
Selections(q) ==
    LET d == Question(q)
    IN  IF d.type = "multiple_choice"
        THEN SUBSET LettersMapKeys(Len(d.options))
        ELSE [1..DndSlots(d.answer) -> Elems(d.options) \cup {SelectOption}]

\* the verdict of submit on the selection
Verdict(q, selected) ==
    LET d == Question(q)
    IN  IF d.type = "multiple_choice"
        THEN [raises |-> McRaises(d.options, d.answer),
              is_correct |-> McIsCorrect(d.options, d.answer, selected)]
        ELSE [raises |-> DndRaises(d.answer, selected) /\ ~DndIsCorrect(d.answer, selected),
              is_correct |-> DndIsCorrect(d.answer, selected)]

\* mark_question_correct without the removal from the missed questions
mark_question_correct_KeepsMissed(q, memory, asked, wrong) ==
    [question_memory |-> IF In(q, memory) THEN memory ELSE Append(memory, q),
     asked_file |-> IF In(q, memory) THEN asked ELSE Append(memory, q),
     wrong_file |-> wrong]

\* mark_question_correct: question_memory and the two files afterwards
mark_question_correct(q, memory, asked, wrong) ==
    [question_memory |-> IF In(q, memory) THEN memory ELSE Append(memory, q),
     asked_file |-> IF In(q, memory) THEN asked ELSE Append(memory, q),
     wrong_file |-> IF In(q, wrong) THEN Remove(wrong, q) ELSE wrong]

\* the else branch of submit: the file of missed questions afterwards
mark_question_wrong(q, wrong) == IF In(q, wrong) THEN wrong ELSE Append(wrong, q)

\* submit of the question window w (either kind), then show_result
Submit(w, selected) ==
    /\ root
    /\ BagIn(w, qwins)
    /\ ResultWins < MaxResultWins
    /\ LET v == Verdict(w.q, selected)
           marked == mark_question_correct(w.q, question_memory, asked_file, wrong_file)
       IN  /\ ~v.raises
           /\ IF v.is_correct
              THEN /\ correct_answers' = correct_answers + 1
                   /\ question_memory' = marked.question_memory
                   /\ asked_file' = marked.asked_file
                   /\ wrong_file' = marked.wrong_file
              ELSE /\ wrong_file' = mark_question_wrong(w.q, wrong_file)
                   /\ UNCHANGED <<correct_answers, question_memory, asked_file>>
           /\ qwins' = (qwins (-) SetToBag({w}))
                       (+) SetToBag({[w EXCEPT !.res = @ + 1,
                                               !.inc = IF v.is_correct THEN @ + 1 ELSE @]})
           /\ last' = Event("submit", w.q, v.is_correct, 0, FALSE)
    /\ UNCHANGED <<topics, score_history, question_queue, current_question,
                   orphans, root, session, ended>>

\* next_question, after the windows wins are left
next_question(wins) ==
    LET asked == ask_question(current_question + 1, question_queue, correct_answers,
                              wins, score_history, ended)
    IN  /\ current_question' = current_question + 1
        /\ qwins' = asked.qwins
        /\ score_history' = asked.score_history
        /\ ended' = asked.ended

\* OK of a result window whose question window w is open: both are destroyed
Ok(w) ==
    /\ root
    /\ BagIn(w, qwins)
    /\ w.res > 0
    /\ orphans' = orphans + (w.res - 1)
    /\ next_question(qwins (-) SetToBag({w}))
    /\ last' = Event("ok", w.q, FALSE, 0, FALSE)
    /\ UNCHANGED <<topics, asked_file, wrong_file, question_memory, correct_answers,
                   question_queue, root, session>>

\* OK of a result window whose question window is destroyed already
\* (parent.destroy() of a destroyed window does nothing)
OkOrphan ==
    /\ root
    /\ orphans > 0
    /\ orphans' = orphans - 1
    /\ next_question(qwins)
    /\ last' = Event("ok", 0, FALSE, 0, TRUE)
    /\ UNCHANGED <<topics, asked_file, wrong_file, question_memory, correct_answers,
                   question_queue, root, session>>

\* End Quiz of an open question window: end_quiz, and the window stays
EndQuizButton(w) ==
    /\ root
    /\ BagIn(w, qwins)
    /\ ended < MaxEnds
    /\ score_history' = end_quiz(score_history, current_question, correct_answers)
    /\ ended' = ended + 1
    /\ last' = Event("end_quiz", w.q, FALSE, 0, FALSE)
    /\ UNCHANGED <<topics, asked_file, wrong_file, globals, windows, session>>

\* close_program: Close, or the close box of any window
CloseProgram ==
    /\ root
    /\ root' = FALSE
    /\ qwins' = EmptyBag
    /\ orphans' = 0
    /\ last' = Event("close", 0, FALSE, 0, FALSE)
    /\ UNCHANGED <<topics, files, globals, session, ended>>

\* one more callback runs
Click ==
    /\ clicks < MaxClicks
    /\ clicks' = clicks + 1
    /\ UNCHANGED <<normVars, matchVars, validVars>>

StartQuizClick ==
    /\ Click
    /\ \E n \in Counts, reset_memory, reset_missed \in BOOLEAN :
          RunQuiz(n, reset_memory, reset_missed)

SubmitClick ==
    /\ Click
    /\ \E w \in BagToSet(qwins) : \E selected \in Selections(w.q) : Submit(w, selected)

OkClick ==
    /\ Click
    /\ \E w \in BagToSet(qwins) : Ok(w)

OkOrphanClick ==
    /\ Click
    /\ OkOrphan

EndQuizClick ==
    /\ Click
    /\ \E w \in BagToSet(qwins) : EndQuizButton(w)

CloseClick ==
    /\ Click
    /\ CloseProgram

Next ==
    \/ StartQuizClick
    \/ SubmitClick
    \/ OkClick
    \/ OkOrphanClick
    \/ EndQuizClick
    \/ CloseClick

Spec == Init /\ [][Next]_vars

(***************************************************************************)
(* One session whose user answers: Start Quiz is clicked once, and then    *)
(* only Submit and OK are clicked, each of them eventually whenever a      *)
(* window offers it.  The type of question 5 is none that ask_question     *)
(* knows.                                                                  *)
(***************************************************************************)
LiveBanks == {<<<<1, 5>>, <<3>>>>, <<<<2>>, <<1>>>>}

LiveInit ==
    /\ topics \in LiveBanks
    /\ asked_file = <<>>
    /\ wrong_file \in {<<>>, <<1>>}
    /\ SessionIdle
    /\ NormIdle
    /\ MatchIdle
    /\ ValidIdle

\* a callback runs (the clicks are not counted here)
Callback == UNCHANGED <<clicks, normVars, matchVars, validVars>>

LiveStart ==
    /\ Callback
    /\ session = 0
    /\ \E n \in 0..MaxCount, reset_memory, reset_missed \in BOOLEAN :
          RunQuiz(n, reset_memory, reset_missed)

LiveSubmit ==
    /\ Callback
    /\ \E w \in BagToSet(qwins) : \E selected \in Selections(w.q) : Submit(w, selected)

LiveOk ==
    /\ Callback
    /\ \/ \E w \in BagToSet(qwins) : Ok(w)
       \/ OkOrphan

LiveNext ==
    \/ LiveStart
    \/ LiveSubmit
    \/ LiveOk

LiveSpec ==
    /\ LiveInit
    /\ [][LiveNext]_vars
    /\ WF_vars(LiveSubmit)
    /\ WF_vars(LiveOk)

(***************************************************************************)
(* The pool builder over every bank and every pair of persisted lists: the *)
(* process starts and Start Quiz is clicked once.  The two lists may share *)
(* a question (Submit clicked twice on one question window leaves such     *)
(* files).                                                                 *)
(***************************************************************************)
PoolInit ==
    /\ topics \in Banks
    /\ asked_file \in StoredLists
    /\ wrong_file \in StoredLists
    /\ SessionIdle
    /\ NormIdle
    /\ MatchIdle
    /\ ValidIdle

\* Start Quiz, clicked once
FirstStartQuizClick ==
    /\ session = 0
    /\ StartQuizClick

PoolNext ==
    \/ FirstStartQuizClick
    \/ CloseClick

PoolSpec == PoolInit /\ [][PoolNext]_vars

(***************************************************************************)
(* The normaliser on its own: arguments drawn from the strings of at most  *)
(* MaxTokenLen characters over a lower-case letter, a character that is no *)
(* option letter, a blank and a colon.                                     *)
(***************************************************************************)
NormChars == {"a", "z", " ", ":"}

Tokens == UNION {[1..k -> NormChars] : k \in 0..MaxTokenLen}

OptionLists ==
    { <<<<"z">>>>,
      <<<<"z">>, <<"a">>>>,
      <<<<"a", "z">>, <<"z", "z">>>>,
      <<<<" ", "z">>, <<"z", ":">>>>,
      <<<<"z">>, <<"z", " ">>>>,
      <<<<"z", "z">>, <<" ">>, <<"z">>>> }

\* None, a string, a list of at most two strings
NormAnswers ==
    {NoneAnswer, ListAnswer(<<>>)}
    \cup {StrAnswer(t) : t \in Tokens}
    \cup {ListAnswer(<<t>>) : t \in Tokens}
    \cup {ListAnswer(<<t, u>>) : t, u \in Tokens}

\* the lists of the same strings as l, in any order, one of them possibly twice
Rearranged(l) ==
    {m \in UNION {[1..k -> Elems(l)] : k \in Len(l)..(Len(l) + 1)} : Elems(m) = Elems(l)}

NormInit ==
    /\ nOptions \in OptionLists
    /\ nAnswer \in NormAnswers
    /\ nLetters = {}
    /\ nCalled = FALSE
    /\ topics = <<>>
    /\ asked_file = <<>>
    /\ wrong_file = <<>>
    /\ SessionIdle
    /\ MatchIdle
    /\ ValidIdle

\* normalize_mc_answer_to_letters(nOptions, nAnswer) is called
NormalizeCall ==
    /\ ~nCalled
    /\ nCalled' = TRUE
    /\ nLetters' = normalize_mc_answer_to_letters(nOptions, nAnswer)
    /\ UNCHANGED <<nOptions, nAnswer, sessionVars, matchVars, validVars>>

\* it is called again with the list rearranged
NormalizeRearranged ==
    /\ nCalled
    /\ nAnswer.kind = "list"
    /\ nAnswer \in NormAnswers
    /\ \E m \in Rearranged(nAnswer.items) :
          /\ m # nAnswer.items
          /\ nAnswer' = ListAnswer(m)
          /\ nLetters' = normalize_mc_answer_to_letters(nOptions, ListAnswer(m))
    /\ UNCHANGED <<nOptions, nCalled, sessionVars, matchVars, validVars>>

NormNext ==
    \/ NormalizeCall
    \/ NormalizeRearranged

NormSpec == NormInit /\ [][NormNext]_vars

(***************************************************************************)
(* The matcher on its own: a question window of either kind is open on a   *)
(* question of the bank file and Submit is clicked with some selection.    *)
(***************************************************************************)
Zed == <<"z", "z", "z">>

\* the answer fields of the multiple_choice questions
MatchTokens ==
    {<<"A">>, <<"b">>, <<"c", ".">>, <<"B", ":">>, <<" ">>, Foo, Alpha, Gamma, NoneStr, Zed}

\* None, a string, a list of at most MaxAnswerLen strings
MatchAnswers ==
    {NoneAnswer}
    \cup {StrAnswer(t) : t \in MatchTokens}
    \cup {ListAnswer(l) : l \in UNION {[1..k -> MatchTokens] : k \in 0..MaxAnswerLen}}

McQuestions ==
    {[type |-> "multiple_choice", options |-> o, answer |-> a] :
        o \in {<<Foo, Bar, Baz>>, <<Gamma, Alpha>>, <<NoneStr, Zed>>}, a \in MatchAnswers}

\* the answer fields of the drag_and_drop questions
DndAnswers ==
    {NoneAnswer, StrAnswer(Step2)}
    \cup {ListAnswer(l) : l \in UNION {[1..k -> {Step1, Step2}] : k \in 0..MaxAnswerLen}}

DndQuestions ==
    {[type |-> "drag_and_drop", options |-> <<Step1, Step2>>, answer |-> a] :
        a \in DndAnswers}

\* submit of ask_drag_and_drop up to show_result: the comparison and the
\* message of a wrong answer
dnd_submit(correct, selected) ==
    LET is_correct == DndIsCorrect(correct, selected)
    IN  [raises |-> ~is_correct /\ DndRaises(correct, selected),
         is_correct |-> is_correct,
         displays |-> IF is_correct \/ DndRaises(correct, selected) THEN {}
                      ELSE {Join(DndExpected(correct), <<",", " ">>)}]

MatchInit ==
    /\ \/ /\ mQuestion \in McQuestions
          /\ \E S \in SUBSET LettersMapKeys(Len(mQuestion.options)) :
                mSelected = Letters(S)
       \/ /\ mQuestion \in DndQuestions
          /\ \E l \in [1..DndSlots(mQuestion.answer) ->
                          Elems(mQuestion.options) \cup {SelectOption}] :
                mSelected = Texts(l)
    /\ mResult = [raises |-> FALSE, is_correct |-> FALSE, displays |-> {}]
    /\ mCalled = FALSE
    /\ topics = <<>>
    /\ asked_file = <<>>
    /\ wrong_file = <<>>
    /\ SessionIdle
    /\ NormIdle
    /\ ValidIdle

\* Submit of a multiple_choice window: is_mc_selection_correct is called
McMatch ==
    /\ ~mCalled
    /\ mQuestion.type = "multiple_choice"
    /\ mCalled' = TRUE
    /\ mResult' = is_mc_selection_correct(mQuestion.options, mQuestion.answer,
                                           mSelected.letters)
    /\ UNCHANGED <<mQuestion, mSelected, sessionVars, normVars, validVars>>

\* Submit of a drag_and_drop window
DndMatch ==
    /\ ~mCalled
    /\ mQuestion.type = "drag_and_drop"
    /\ mCalled' = TRUE
    /\ mResult' = dnd_submit(mQuestion.answer, mSelected.texts)
    /\ UNCHANGED <<mQuestion, mSelected, sessionVars, normVars, validVars>>

MatchNext ==
    \/ McMatch
    \/ DndMatch

MatchSpec == MatchInit /\ [][MatchNext]_vars

(***************************************************************************)
(* The validation mode (main.py --validate).  A bank file is the sequence  *)
(* of its topic values; a topic value is a list of questions or something  *)
(* else; a question is an object or something else.  Of an object the keys *)
(* that validate_questions reads: 'question' (a text, "", or a value that  *)
(* is no text), 'options' (a list or something else), 'type' (a text, or   *)
(* the key is missing) and 'answer'.                                       *)
(***************************************************************************)
NotAList == [kind |-> "other", questions |-> <<>>]
TopicList(qs) == [kind |-> "list", questions |-> qs]

NotAnObject ==
    [object |-> FALSE, question |-> "", options |-> [kind |-> "other", items |-> <<>>],
     type |-> "", answer |-> NoneAnswer]

\* the questions of the bank files: when 'options' is no list or is empty
\* the type and the answer are not read
BankQuestions ==
    {NotAnObject}
    \cup {[object |-> TRUE, question |-> t, options |-> o,
           type |-> "multiple_choice", answer |-> StrAnswer(<<"B">>)] :
            t \in {"text", "empty", "number"},
            o \in {[kind |-> "list", items |-> <<>>], [kind |-> "other", items |-> <<>>]}}
    \cup {[object |-> TRUE, question |-> t,
           options |-> [kind |-> "list", items |-> <<Foo, Bar>>],
           type |-> ty, answer |-> a] :
            t \in {"text", "empty", "number"},
            ty \in {"multiple_choice", "drag_and_drop", "matching", "missing"},
            a \in {ListAnswer(<<>>), StrAnswer(<<"B">>), ListAnswer(<<Zed>>)}}

\* the bank files with the questions l: in one topic, after a topic whose
\* value is no list, or in two topics
BankFiles(l) ==
    {<<TopicList(l)>>,
     <<NotAList, TopicList(l)>>,
     <<TopicList(IF l = <<>> THEN <<>> ELSE <<Head(l)>>),
       TopicList(IF l = <<>> THEN <<>> ELSE Tail(l))>>}

\* the loop body of validate_questions without the branch of an unknown type
QuestionIssues_NoTypeCheck(q) ==
    IF ~q.object THEN 1
    ELSE (IF q.question # "text" THEN 1 ELSE 0)
         + (IF q.options.kind # "list" \/ q.options.items = <<>> THEN 1
            ELSE IF q.type \in {"multiple_choice", "missing"}
            THEN (IF normalize_mc_answer_to_letters(q.options.items, q.answer) = {}
                  THEN 1 ELSE 0)
            ELSE IF q.type = "drag_and_drop"
            THEN (IF ~(q.answer.kind = "list" /\ q.answer.items # <<>>) THEN 1 ELSE 0)
            ELSE 0)

\* the loop body of validate_questions for one question: the issues appended
QuestionIssues(q) ==
    IF ~q.object THEN 1
    ELSE (IF q.question # "text" THEN 1 ELSE 0)
         + (IF q.options.kind # "list" \/ q.options.items = <<>> THEN 1
            ELSE LET qtype == IF q.type = "missing" THEN "multiple_choice" ELSE q.type
                 IN  IF qtype = "multiple_choice"
                     THEN (IF normalize_mc_answer_to_letters(q.options.items, q.answer) = {}
                           THEN 1 ELSE 0)
                     ELSE IF qtype = "drag_and_drop"
                     THEN (IF ~(q.answer.kind = "list" /\ q.answer.items # <<>>)
                           THEN 1 ELSE 0)
                     ELSE 1)

\* the inner loop over the questions of one topic: [total, issues]
RECURSIVE TopicIssues(_)
TopicIssues(qs) ==
    IF qs = <<>> THEN [total |-> 0, issues |-> 0]
    ELSE LET rest == TopicIssues(Tail(qs))
         IN  [total |-> 1 + rest.total,
              issues |-> QuestionIssues(Head(qs)) + rest.issues]

\* validate_questions: total and len(issues)
RECURSIVE validate_questions(_)
validate_questions(bank) ==
    IF bank = <<>> THEN [total |-> 0, issues |-> 0]
    ELSE LET rest == validate_questions(Tail(bank))
             this == IF Head(bank).kind # "list"
                     THEN [total |-> 0, issues |-> 1]
                     ELSE TopicIssues(Head(bank).questions)
         IN  [total |-> this.total + rest.total, issues |-> this.issues + rest.issues]

ValidInit ==
    /\ \E k \in 0..MaxBankQuestions : \E l \in [1..k -> BankQuestions] :
          vBank \in BankFiles(l)
    /\ vResult = [total |-> 0, issues |-> 0, exit |-> 0]
    /\ vCalled = FALSE
    /\ topics = <<>>
    /\ asked_file = <<>>
    /\ wrong_file = <<>>
    /\ SessionIdle
    /\ NormIdle
    /\ MatchIdle

\* main with --validate: validate_questions, then sys.exit(1) or sys.exit(0)
Validate ==
    /\ ~vCalled
    /\ vCalled' = TRUE
    /\ LET r == validate_questions(vBank)
       IN  vResult' = [total |-> r.total, issues |-> r.issues,
                       exit |-> IF r.issues > 0 THEN 1 ELSE 0]
    /\ UNCHANGED <<vBank, sessionVars, normVars, matchVars>>

ValidNext == Validate

ValidSpec == ValidInit /\ [][ValidNext]_vars

(***************************************************************************)
(* The properties.                                                         *)
(***************************************************************************)
OpenWindows == BagToSet(qwins) # {} \/ orphans > 0

\* C1: from disjoint persisted lists, after any Submit, OK and End Quiz
\* clicks of a session, no question is both in the persisted mastered list
\* and in the persisted missed list.
C1_MasteredNotMissed ==
    session <= 1 => Elems(asked_file) \cap Elems(wrong_file) = {}

Occurrences(x, l) == Cardinality({i \in 1..Len(l) : l[i] = x})

\* b lists the entries of a in some order
IsPermutation(a, b) ==
    /\ Len(a) = Len(b)
    /\ \A x \in Elems(a) \cup Elems(b) : Occurrences(x, a) = Occurrences(x, b)

\* the missed questions still in the bank, in their stored order
MissedInBank == SelectSeq(wrong_file, LAMBDA q : q \in Elems(Flatten(topics)))

\* the bank questions neither mastered nor among MissedInBank, in bank order
Remainder ==
    SelectSeq(Flatten(topics),
              LAMBDA q : q \notin Elems(question_memory) /\ q \notin Elems(MissedInBank))

\* C2: for a requested count N >= 0 the queue run_quiz builds is the first
\* min(N, totalAvailable) entries of the missed questions still in the bank,
\* in their stored order, followed by a permutation of the remainder.
C2_QueueIsMissedThenRemainder ==
    (last.op = "run_quiz" /\ last.n >= 0) =>
        LET total == Len(MissedInBank) + Len(Remainder)
            n == IF last.n < total THEN last.n ELSE total
        IN  /\ Len(question_queue) = n
            /\ \E perm \in [1..Len(Remainder) -> Elems(Remainder)] :
                  /\ IsPermutation(perm, Remainder)
                  /\ question_queue = SubSeq(MissedInBank \o perm, 1, n)

\* a queue cut inside the remainder, after a missed question, with a question
\* left out as mastered
C2_Witness ==
    /\ last.op = "run_quiz"
    /\ last.n = 2
    /\ Len(question_queue) = 2
    /\ Len(MissedInBank) = 1
    /\ Len(Remainder) = 2
    /\ question_queue[1] = MissedInBank[1]
    /\ question_queue[2] = Remainder[2]
    /\ Elems(question_memory) \cap Elems(Flatten(topics)) # {}
    /\ Elems(question_memory) \cap Elems(wrong_file) = {}

\* C3: when the mastered memory is not reset, no question of the loaded
\* mastered list is in the queue run_quiz builds.
C3_MasteredNeverQueued ==
    last.op = "run_quiz" => Elems(question_queue) \cap Elems(question_memory) = {}

\* a step of submit: one more result window
SubmitStep == (ResultWins' = ResultWins + 1) /\ last'.op = "submit"

\* C4: a correct submission adds exactly 1 to the correct-count and leaves
\* the question mastered and not missed; an incorrect one leaves the
\* correct-count and the mastered list as they were and the question in the
\* missed list, once.
C4_SubmitAppliesVerdict ==
    [][SubmitStep =>
        IF last'.ok
        THEN /\ correct_answers' = correct_answers + 1
             /\ In(last'.q, question_memory')
             /\ In(last'.q, asked_file')
             /\ ~In(last'.q, wrong_file')
        ELSE /\ correct_answers' = correct_answers
             /\ question_memory' = question_memory
             /\ asked_file' = asked_file
             /\ Occurrences(last'.q, wrong_file') = 1
             /\ wrong_file' \in {wrong_file, Append(wrong_file, last'.q)}]_vars

\* a correct submission after an incorrect one: the question has left the
\* missed list, where another question stays
C4_Witness ==
    /\ last.op = "submit"
    /\ last.ok
    /\ correct_answers = 1
    /\ In(last.q, asked_file)
    /\ ~In(last.q, wrong_file)
    /\ wrong_file # <<>>
    /\ \E w \in BagToSet(qwins) : w.q = last.q /\ w.res = 2 /\ w.inc = 1

\* C5: for one question the correct-count is incremented at most once and
\* the index advances once: no window's Submit adds twice and OK is not
\* clicked for a question whose window an earlier OK destroyed.
C5_OncePerQuestion ==
    session <= 1 =>
        /\ \A w \in BagToSet(qwins) : w.inc <= 1
        /\ ~(last.op = "ok" /\ last.orphan)

\* C6: in a session (the first one) end_quiz runs at most once, and once it
\* has run no Submit, OK or End Quiz click changes the correct-count, the index, the
\* mastered and missed lists or the score history.
C6_EndedIsTerminal ==
    [][(session = 1 /\ session' = 1) =>
          /\ ended' <= 1
          /\ ended = 1 =>
                UNCHANGED <<correct_answers, current_question, asked_file, wrong_file,
                            score_history>>]_vars

\* C7: when the queue run_quiz builds is empty, no window opens and end_quiz
\* runs at once: the record appended has correct 0, total 1 and score 0.
C7_EmptyQueueEndsAtOnce ==
    [][(session' = session + 1 /\ question_queue' = <<>>) =>
          /\ qwins' = qwins
          /\ orphans' = orphans
          /\ ended' = 1
          /\ correct_answers' = 0
          /\ Len(score_history') = Len(score_history) + 1
          /\ SubSeq(score_history', 1, Len(score_history)) = score_history
          /\ LET record == score_history'[Len(score_history')]
             IN  /\ record.correct = 0
                 /\ record.total = 1
                 /\ record.score[1] = 0
                 /\ record.score[2] = 1]_vars

\* a positive count and a bank without an eligible question, or a count of 0
\* after a session that answered a question
C7_Witness ==
    /\ last.op = "run_quiz"
    /\ question_queue = <<>>
    /\ ended = 1
    /\ score_history # <<>>
    /\ score_history[Len(score_history)].total = 1
    /\ \/ last.n > 0
       \/ last.n = 0 /\ session = 2 /\ Flatten(topics) # <<>>

\* C8: while a question or result window is open and end_quiz has not run,
\* Start Quiz starts no session.
C8_OneActiveSession ==
    [][(OpenWindows /\ ended = 0) => session' = session]_vars

\* C9: the letters returned depend on the set of the tokens only, not on
\* their order or multiplicity.
C9_OrderIndependent ==
    [][(/\ nCalled /\ nCalled'
        /\ nAnswer.kind = "list" /\ nAnswer'.kind = "list"
        /\ nOptions' = nOptions
        /\ Elems(nAnswer'.items) = Elems(nAnswer.items))
       => nLetters' = nLetters]_vars

\* two tokens that give two letters, one of them twice in the list
C9_Witness ==
    /\ nCalled
    /\ nAnswer.kind = "list"
    /\ Len(nAnswer.items) = 3
    /\ nAnswer.items[1] # nAnswer.items[2]
    /\ nAnswer.items[1] = nAnswer.items[3]
    /\ Cardinality(nLetters) = 2

\* C10: for options with pairwise distinct stripped texts, the answer given
\* as the text of option i yields the letter of option i alone.
C10_ExactOptionText ==
    (/\ nCalled
     /\ nAnswer.kind = "str"
     /\ \A i, j \in 1..Len(nOptions) :
           Strip(nOptions[i]) = Strip(nOptions[j]) => i = j)
    => \A i \in 1..Len(nOptions) :
          nAnswer.items[1] = nOptions[i] => nLetters = {Chr65(i - 1)}

\* the three rules of the normaliser, for one token
LeadingLetterRule(options, raw) ==
    Strip(raw) # <<>> /\ UpperChar(Strip(raw)[1]) \in LettersMapKeys(Len(options))
ExactTextRule(options, raw) ==
    Strip(raw) # <<>> /\ \E i \in 1..Len(options) : Strip(options[i]) = Strip(raw)
PunctuatedTokenRule(options, raw) ==
    /\ Strip(raw) # <<>>
    /\ \E L \in LettersMapKeys(Len(options)) :
          Upper(RStrip(FirstWord(Strip(raw)), {".", ":"})) = <<L>>
MatchesRule(options, raw) ==
    \/ LeadingLetterRule(options, raw)
    \/ ExactTextRule(options, raw)
    \/ PunctuatedTokenRule(options, raw)

\* C11: the normaliser returns letters of the options only; None, the empty
\* list and blank tokens give the empty set, and so do tokens that match
\* none of the three rules.
C11_NeverInventsLetters ==
    nCalled =>
        /\ nLetters \subseteq LettersMapKeys(Len(nOptions))
        /\ nAnswer.kind = "none" => nLetters = {}
        /\ (\A i \in 1..Len(nAnswer.items) : Strip(nAnswer.items[i]) = <<>>)
              => nLetters = {}
        /\ (\A i \in 1..Len(nAnswer.items) : ~MatchesRule(nOptions, nAnswer.items[i]))
              => nLetters = {}

\* a list of a blank token and a token that starts with a letter that is no
\* letter of the options
C11_Witness ==
    /\ nCalled
    /\ nAnswer.kind = "list"
    /\ Len(nAnswer.items) = 2
    /\ Strip(nAnswer.items[1]) = <<>> /\ nAnswer.items[1] # <<>>
    /\ Strip(nAnswer.items[2]) # <<>>
    /\ UpperChar(Strip(nAnswer.items[2])[1]) \in Elems(UpperCase)
    /\ ~MatchesRule(nOptions, nAnswer.items[2])
    /\ nLetters = {}

\* the letters of C in ascending order, each followed by ". " and the text
\* of its option, joined by ", "
LetterListing(options, C) ==
    LET ascending == SelectSeq(UpperCase, LAMBDA L : L \in C)
    IN  Join([i \in 1..Len(ascending) |->
                <<ascending[i]>> \o <<".", " ">> \o options[Ord65(ascending[i]) + 1]],
             <<",", " ">>)

\* C12: when the answer field of a multiple_choice question normalises to a
\* non-empty set C, the matcher returns is_correct = (selected = C) and the
\* display that lists the letters of C in ascending order with their texts.
C12_ExactSetEquality ==
    (/\ mCalled
     /\ mQuestion.type = "multiple_choice"
     /\ normalize_mc_answer_to_letters(mQuestion.options, mQuestion.answer) # {})
    => LET C == normalize_mc_answer_to_letters(mQuestion.options, mQuestion.answer)
       IN  /\ ~mResult.raises
           /\ mResult.is_correct <=> (mSelected.letters = C)
           /\ mResult.displays = {LetterListing(mQuestion.options, C)}

\* one letter of a correct set of two is selected: incorrect, and the
\* display is "A. Foo, C. Baz"
C12_Witness ==
    /\ mCalled
    /\ mQuestion.type = "multiple_choice"
    /\ mQuestion.options = <<Foo, Bar, Baz>>
    /\ mQuestion.answer = ListAnswer(<<<<"c", ".">>, <<"A">>>>)
    /\ mSelected.letters = {"A"}
    /\ ~mResult.is_correct
    /\ mResult.displays = {<<"A", ".", " ">> \o Foo \o <<",", " ">> \o <<"C", ".", " ">> \o Baz}

\* the second normalisation of the fallback path: of list(correct_set)
FallbackLetters(options, correct) ==
    IF correct.kind = "none"
    THEN normalize_mc_answer_to_letters(options, ListAnswer(<<NoneStr>>))
    ELSE normalize_mc_answer_to_letters(options, ListAnswer(correct.items))

\* C13: when the answer field and the fallback's second attempt both
\* normalise to the empty set, the display returned is "Unknown".
C13_UnknownDisplay ==
    (/\ mCalled
     /\ mQuestion.type = "multiple_choice"
     /\ normalize_mc_answer_to_letters(mQuestion.options, mQuestion.answer) = {}
     /\ FallbackLetters(mQuestion.options, mQuestion.answer) = {}
     /\ ~mResult.raises)
    => mResult.displays = {Unknown}

\* C14: the matcher returns a (bool, string) result for every answer field
\* and every selection of letters of the options; it never raises.
C14_MatcherNeverRaises ==
    (mCalled /\ mQuestion.type = "multiple_choice") =>
        /\ ~mResult.raises
        /\ mResult.displays # {}

\* C15: a drag_and_drop submission is correct exactly when the selected
\* sequence has the length of the expected one (a scalar answer being a
\* sequence of one entry) and agrees with it at every position.
C15_PositionalEquality ==
    (mCalled /\ mQuestion.type = "drag_and_drop") =>
        LET expected == mQuestion.answer.items
            selected == mSelected.texts
        IN  mResult.is_correct <=>
                /\ mQuestion.answer.kind # "none"
                /\ Len(selected) = Len(expected)
                /\ \A i \in 1..Len(expected) : selected[i] = expected[i]

\* the entries of the expected sequence, one of them holding "|", selected
\* in the other order: incorrect
C15_Witness ==
    /\ mCalled
    /\ mQuestion.type = "drag_and_drop"
    /\ mQuestion.answer = ListAnswer(<<Step1, Step2>>)
    /\ mSelected.texts = <<Step2, Step1>>
    /\ \E i \in 1..Len(Step2) : Step2[i] = "|"
    /\ ~mResult.is_correct

\* a question that fails one of the checks of the validation mode
QuestionViolates(q) ==
    \/ ~q.object
    \/ q.question \in {"empty", "number"}
    \/ q.options.kind # "list"
    \/ q.options.items = <<>>
    \/ /\ q.type \in {"multiple_choice", "missing"}
       /\ normalize_mc_answer_to_letters(q.options.items, q.answer) = {}
    \/ /\ q.type = "drag_and_drop"
       /\ q.answer.kind # "list" \/ q.answer.items = <<>>
    \/ q.type \notin {"multiple_choice", "drag_and_drop", "missing"}

BankViolates(bank) ==
    \E t \in 1..Len(bank) :
        \/ bank[t].kind # "list"
        \/ \E i \in 1..Len(bank[t].questions) : QuestionViolates(bank[t].questions[i])

\* C16: the validation mode reports an issue, and exits with a status that
\* is not 0, exactly when the bank fails one of the listed checks.
C16_IssuesIffViolation ==
    vCalled =>
        /\ vResult.issues >= 1 <=> BankViolates(vBank)
        /\ vResult.exit # 0 <=> BankViolates(vBank)
        /\ ~BankViolates(vBank) => (vResult.issues = 0 /\ vResult.exit = 0)

\* two questions in two topics: one passes every check, the type of the
\* other is unknown and nothing else is wrong with it
C16_Witness ==
    /\ vCalled
    /\ Len(vBank) = 2
    /\ vBank[1].kind = "list" /\ vBank[2].kind = "list"
    /\ Len(vBank[1].questions) = 1 /\ Len(vBank[2].questions) = 1
    /\ ~QuestionViolates(vBank[1].questions[1])
    /\ LET q == vBank[2].questions[1]
       IN  /\ q.object /\ q.question = "text" /\ q.options.items # <<>>
           /\ q.type = "matching"
    /\ vResult = [total |-> 2, issues |-> 1, exit |-> 1]

\* C17: with Submit and OK clicked whenever they are offered, every started
\* session reaches Ended: end_quiz runs.
C17_SessionReachesEnded == (session = 1) ~> (ended >= 1)

\* C18: in a session (the first one) the index stays within 0..len(queue)
\* and never decreases.
C18_IndexWithinQueue ==
    [][(session = 1 /\ session' = 1) =>
          /\ current_question' >= current_question
          /\ 0 <= current_question'
          /\ current_question' <= Len(question_queue')]_vars

\* no Submit has run twice for a question: at most one result window for
\* each question window, and at most one correct answer for each question
\* presented
OneSubmitEach ==
    /\ orphans = 0
    /\ \A w \in BagToSet(qwins) : w.res <= 1 /\ w.inc <= 1 /\ CopiesIn(w, qwins) = 1
    /\ correct_answers <= current_question + 1

\* C19: every record end_quiz appends in a session (the first one, each
\* question submitted once) has 0 <= correct <= total.
C19_CorrectWithinTotal ==
    [][(/\ session = 1 /\ session' = 1
        /\ OneSubmitEach
        /\ Len(score_history') = Len(score_history) + 1)
       => LET record == score_history'[Len(score_history')]
          IN  0 <= record.correct /\ record.correct <= record.total]_vars

\* C20: every question of the queue run_quiz builds is a question of the
\* flattened bank.
C20_QueueWithinBank ==
    last.op = "run_quiz" => Elems(question_queue) \subseteq Elems(Flatten(topics))

\* a missed question that has left the bank is dropped, and a missed
\* question of the bank is first in the queue
C20_Witness ==
    /\ last.op = "run_quiz"
    /\ Len(wrong_file) = 2
    /\ wrong_file[1] \notin Elems(Flatten(topics))
    /\ wrong_file[2] \in Elems(Flatten(topics))
    /\ Len(question_queue) = 2
    /\ question_queue[1] = wrong_file[2]

\* C21: the queue run_quiz builds is never longer than max(N, 0) for the
\* requested count N; for N <= 0 it is empty and the session ends at once.
C21_NonPositiveCountEmptyQueue ==
    last.op = "run_quiz" =>
        /\ Len(question_queue) <= (IF last.n > 0 THEN last.n ELSE 0)
        /\ last.n <= 0 => (question_queue = <<>> /\ ended = 1 /\ qwins = EmptyBag)

====
